---- MODULE Spec2Model ----
(***************************************************************************)
(* git-lfs-authenticate: a single-shot command that validates its          *)
(* arguments, asks gitolite whether GL_USER may read or write a            *)
(* repository and, when allowed, prints a signed five-minute token.        *)
(*                                                                         *)
(* Strings and byte slices are sequences of one-character strings; a nil   *)
(* error is the string "nil".                                              *)
(***************************************************************************)
EXTENDS Integers, Sequences, FiniteSets, TLC

\* ------------------------------------------------------------------ bounds
MaxOidExtra == 2    \* OID arguments up to this many characters past 64
MaxOutLen == 3      \* length of the output printed by the perl fallback
MaxExit == 3        \* exit statuses 0..MaxExit of a subprocess
MaxNow == 2         \* time.Now() in epoch seconds, 0..MaxNow

\* --------------------------------------------------------------- constants
OidBytes == 32      \* len(data) != 32
SuffixLen == 4      \* repo[:len(repo)-4]
Minute == 60        \* time.Minute, in seconds
DeniedExit == 1     \* the status "gitolite access -q" exits with on a denial

\* ----------------------------------------------------------------- strings
upload == <<"u", "p", "l", "o", "a", "d">>
download == <<"d", "o", "w", "n", "l", "o", "a", "d">>
dotGit == <<".", "g", "i", "t">>

Rep(c, n) == [i \in 1..n |-> c]

\* unicode.IsSpace restricted to the characters the inputs use
IsSpace(c) == c \in {" ", "\t", "\n", "\r", "\f"}

RECURSIVE TrimLeft(_)
TrimLeft(s) ==
    IF s # <<>> /\ IsSpace(Head(s)) THEN TrimLeft(Tail(s)) ELSE s

RECURSIVE TrimRight(_)
TrimRight(s) ==
    IF s # <<>> /\ IsSpace(s[Len(s)])
    THEN TrimRight(SubSeq(s, 1, Len(s) - 1)) ELSE s

\* strings.TrimSpace
TrimSpace(s) == TrimRight(TrimLeft(s))

\* strings.HasSuffix
HasSuffix(s, suffix) ==
    /\ Len(s) >= Len(suffix)
    /\ SubSeq(s, Len(s) - Len(suffix) + 1, Len(s)) = suffix

\* strings.Contains
Contains(s, substr) ==
    \E i \in 0..(Len(s) - Len(substr)) : SubSeq(s, i + 1, i + Len(substr)) = substr

\* bytes.IndexByte: zero-based index of the first c in b, -1 when absent
IndexByte(b, c) ==
    IF \E i \in 1..Len(b) : b[i] = c
    THEN (CHOOSE i \in 1..Len(b) : b[i] = c /\ \A j \in 1..(i - 1) : b[j] # c) - 1
    ELSE -1

\* ---------------------------------------------------------------- encoding
HexValue ==
    [c \in {"0", "1", "2", "3", "4", "5", "6", "7", "8", "9",
            "a", "b", "c", "d", "e", "f", "A", "B", "C", "D", "E", "F"} |->
        CASE c = "0" -> 0 [] c = "1" -> 1 [] c = "2" -> 2 [] c = "3" -> 3
          [] c = "4" -> 4 [] c = "5" -> 5 [] c = "6" -> 6 [] c = "7" -> 7
          [] c = "8" -> 8 [] c = "9" -> 9
          [] c \in {"a", "A"} -> 10 [] c \in {"b", "B"} -> 11
          [] c \in {"c", "C"} -> 12 [] c \in {"d", "D"} -> 13
          [] c \in {"e", "E"} -> 14 [] c \in {"f", "F"} -> 15]

\* encoding/hex fromHexChar: the digit's value, -1 for a non-hex character
fromHexChar(c) == IF c \in DOMAIN HexValue THEN HexValue[c] ELSE -1

\* hex.DecodeString: every pair of characters is one byte; an odd length or
\* a non-hex character is an error
hexDecodeString(s) ==
    LET ok == /\ Len(s) % 2 = 0
              /\ \A i \in 1..Len(s) : fromHexChar(s[i]) >= 0
    IN  [ok |-> ok,
         data |-> IF ok
                  THEN [i \in 1..(Len(s) \div 2) |->
                           fromHexChar(s[2 * i - 1]) * 16 + fromHexChar(s[2 * i])]
                  ELSE <<>>]

\* the check on the optional third argument
OidFails_lenOnly(oid) ==
    LET r == hexDecodeString(oid) IN r.ok /\ Len(r.data) # OidBytes

OidFails(oid) ==
    LET r == hexDecodeString(oid) IN ~r.ok \/ Len(r.data) # OidBytes

B64Alphabet ==
    <<"A", "B", "C", "D", "E", "F", "G", "H", "I", "J", "K", "L", "M",
      "N", "O", "P", "Q", "R", "S", "T", "U", "V", "W", "X", "Y", "Z",
      "a", "b", "c", "d", "e", "f", "g", "h", "i", "j", "k", "l", "m",
      "n", "o", "p", "q", "r", "s", "t", "u", "v", "w", "x", "y", "z",
      "0", "1", "2", "3", "4", "5", "6", "7", "8", "9", "+", "/">>

IsB64(c) == \E i \in 1..64 : B64Alphabet[i] = c
B64Val(c) == (CHOOSE i \in 1..64 : B64Alphabet[i] = c) - 1

RECURSIVE B64Quanta(_)
B64Quanta(t) ==
    IF Len(t) = 0 THEN [ok |-> TRUE, data |-> <<>>]
    ELSE IF Len(t) < 4 THEN [ok |-> FALSE, data |-> <<>>]
    ELSE IF ~(IsB64(t[1]) /\ IsB64(t[2])) THEN [ok |-> FALSE, data |-> <<>>]
    ELSE LET v1 == B64Val(t[1])
             v2 == B64Val(t[2])
             b1 == v1 * 4 + (v2 \div 16)
         IN  IF t[3] = "=" /\ t[4] = "=" /\ Len(t) = 4
             THEN [ok |-> TRUE, data |-> <<b1>>]
             ELSE IF ~IsB64(t[3]) THEN [ok |-> FALSE, data |-> <<>>]
             ELSE LET v3 == B64Val(t[3])
                      b2 == (v2 % 16) * 16 + (v3 \div 4)
                  IN  IF t[4] = "=" /\ Len(t) = 4
                      THEN [ok |-> TRUE, data |-> <<b1, b2>>]
                      ELSE IF ~IsB64(t[4]) THEN [ok |-> FALSE, data |-> <<>>]
                      ELSE LET b3 == (v3 % 4) * 64 + B64Val(t[4])
                               rest == B64Quanta(SubSeq(t, 5, Len(t)))
                           IN  [ok |-> rest.ok,
                                data |-> IF rest.ok THEN <<b1, b2, b3>> \o rest.data
                                         ELSE <<>>]

\* base64.StdEncoding.DecodeString: padded alphabet, \r and \n are skipped
base64DecodeString(s) ==
    B64Quanta(SelectSeq(s, LAMBDA c : c \notin {"\r", "\n"}))

\* ------------------------------------------------------------------ inputs
OidLens == {0, 1, 2} \cup ((2 * OidBytes - 2)..(2 * OidBytes + MaxOidExtra))

OidArgs ==
    {Rep("a", n) : n \in OidLens}
    \cup {Rep("0", OidBytes) \o Rep("F", OidBytes)}
    \cup {Rep("a", 2 * OidBytes - 1) \o <<"g">>,
          <<" ">> \o Rep("a", 2 * OidBytes),
          Rep("a", 2 * OidBytes) \o <<"\n">>}

RepoArgs ==
    {<<>>, <<" ">>, dotGit, dotGit \o <<" ">>, <<"a">>, <<"a">> \o dotGit,
     <<" ", "a">> \o dotGit \o <<"\n">>, <<"a">> \o dotGit \o dotGit}

OpArgs ==
    {upload, download, <<" ">> \o upload \o <<"\n">>, <<>>,
     <<"U", "p", "l", "o", "a", "d">>, upload \o <<"s">>}

prog == <<"p">>

\* os.Args, program name first
ArgVectors ==
    {<<prog>>}
    \cup {<<prog, r>> : r \in RepoArgs}
    \cup {<<prog, r, o>> : r \in RepoArgs, o \in OpArgs}
    \cup {<<prog, r, o, x>> : r \in RepoArgs, o \in OpArgs, x \in OidArgs}
    \cup {<<prog, <<"a">>, o, Rep("a", 2 * OidBytes), <<"x">>>> : o \in OpArgs}

SecretStrings ==
    {<<>>, <<"\n">>, <<"Q", "U", "I", "=">>,
     <<"Q", "U", "J", "D", "\n", "Q", "Q", "=", "=">>,
     <<"Q">>, <<"Q", "Q", "=">>, <<"!", "!", "!", "!">>}

endpoint == <<"h">>

\* ${HOME}/.git-lfs-authenticate: absent, not a JSON object of the expected
\* shape, or an object whose "secret" key may be missing
ConfigFiles ==
    {[exists |-> FALSE, wellFormed |-> FALSE, hasSecret |-> FALSE,
      Secret |-> <<>>, HRef |-> <<>>],
     [exists |-> TRUE, wellFormed |-> FALSE, hasSecret |-> FALSE,
      Secret |-> <<>>, HRef |-> <<>>],
     [exists |-> TRUE, wellFormed |-> TRUE, hasSecret |-> FALSE,
      Secret |-> <<>>, HRef |-> endpoint]}
    \cup {[exists |-> TRUE, wellFormed |-> TRUE, hasSecret |-> TRUE,
           Secret |-> s, HRef |-> endpoint] : s \in SecretStrings}

\* os.Getenv("GL_USER"); an unset variable reads as ""
UserEnvs == {<<>>, <<" ">>, <<"u">>, <<" ", "v", "\n">>}

\* os.Getenv("GL_BINDIR")
BindirEnvs == {<<>>, <<" ", "\t">>, <<"/", "b">>, <<" ", "/", "b">>}

PermLetters == {"R", "W", " ", "\n"}

RECURSIVE OutputsOfLen(_)
OutputsOfLen(n) ==
    IF n = 0 THEN {<<>>}
    ELSE {<<c>> \o t : c \in PermLetters, t \in OutputsOfLen(n - 1)}

Outputs == UNION {OutputsOfLen(n) : n \in 0..MaxOutLen}

\* the result of (*exec.Cmd).Run: the process could not be started, or it
\* ran and exited with a status
RunResults ==
    {[started |-> FALSE, code |-> 0]}
    \cup {[started |-> TRUE, code |-> c] : c \in 0..MaxExit}

\* the result of (*exec.Cmd).Output
OutputResults ==
    {[started |-> FALSE, code |-> 0, out |-> <<>>]}
    \cup {[started |-> TRUE, code |-> c, out |-> <<>>] : c \in 1..MaxExit}
    \cup {[started |-> TRUE, code |-> 0, out |-> o] : o \in Outputs}

NoRun == [started |-> FALSE, code |-> 0]
NoOutput == [started |-> FALSE, code |-> 0, out |-> <<>>]

\* what the host offers checkAccess: exec.LookPath for both binaries,
\* GL_BINDIR, and how the subprocess that gets started ends
Authorities ==
    {[gitolite |-> TRUE, run |-> r, perl |-> FALSE, bindir |-> <<>>,
      output |-> NoOutput] : r \in RunResults}
    \cup {[gitolite |-> FALSE, run |-> NoRun, perl |-> FALSE, bindir |-> b,
           output |-> NoOutput] : b \in BindirEnvs}
    \cup {[gitolite |-> FALSE, run |-> NoRun, perl |-> TRUE, bindir |-> b,
           output |-> NoOutput] : b \in {<<>>, <<" ", "\t">>}}
    \cup {[gitolite |-> FALSE, run |-> NoRun, perl |-> TRUE,
           bindir |-> <<"/", "b">>, output |-> o] : o \in OutputResults}
    \cup {[gitolite |-> FALSE, run |-> NoRun, perl |-> TRUE,
           bindir |-> <<" ", "/", "b">>, output |-> o] :
              o \in {r \in OutputResults : r.out = <<>>}}

\* ------------------------------------------------------------- checkAccess
StripSuffix(repo) ==
    IF HasSuffix(repo, dotGit) THEN SubSeq(repo, 1, Len(repo) - SuffixLen)
    ELSE repo

\* the primary path: an *exec.ExitError is a denial, any other error is
\* returned, no error is an allow
RunDecision_allowOnExit(run) ==
    IF run.started /\ run.code # 0 THEN [allowed |-> TRUE, err |-> "nil"]
    ELSE IF ~run.started THEN [allowed |-> FALSE, err |-> "exec"]
    ELSE [allowed |-> TRUE, err |-> "nil"]

RunDecision(run) ==
    IF run.started /\ run.code # 0 THEN [allowed |-> FALSE, err |-> "nil"]
    ELSE IF ~run.started THEN [allowed |-> FALSE, err |-> "exec"]
    ELSE [allowed |-> TRUE, err |-> "nil"]

FallbackUsable_untrimmed(perlFound, bindirEnv) ==
    perlFound /\ bindirEnv # <<>>

FallbackUsable(perlFound, bindirEnv) ==
    perlFound /\ TrimSpace(bindirEnv) # <<>>

\* the fallback path: the bytes before the first space are the rights
FallbackDecision_wholeOutput(output, perm) ==
    IF ~output.started \/ output.code # 0
    THEN [allowed |-> FALSE, err |-> "exec"]
    ELSE LET i == IndexByte(output.out, " ")
         IN  IF i < 0 THEN [allowed |-> FALSE, err |-> "invalid output"]
             ELSE [allowed |-> Contains(output.out, perm), err |-> "nil"]

FallbackDecision(output, perm) ==
    IF ~output.started \/ output.code # 0
    THEN [allowed |-> FALSE, err |-> "exec"]
    ELSE LET i == IndexByte(output.out, " ")
         IN  IF i < 0 THEN [allowed |-> FALSE, err |-> "invalid output"]
             ELSE [allowed |-> Contains(SubSeq(output.out, 1, i), perm),
                   err |-> "nil"]

\* checkAccess(repo, user, perm) on a host in state auth: the value it
\* returns and the subprocesses it starts
checkAccess(repo, user, perm, auth) ==
    LET name == StripSuffix(repo)
    IN  IF auth.gitolite
        THEN LET d == RunDecision(auth.run)
             IN  [allowed |-> d.allowed, err |-> d.err,
                  spawned |-> << [cmd |-> "gitolite", repo |-> name,
                                  user |-> user, perm |-> perm,
                                  bindir |-> <<>>] >>]
        ELSE IF FallbackUsable(auth.perl, auth.bindir)
        THEN LET d == FallbackDecision(auth.output, perm)
             IN  [allowed |-> d.allowed, err |-> d.err,
                  spawned |-> << [cmd |-> "perl", repo |-> name,
                                  user |-> <<>>, perm |-> <<>>,
                                  bindir |-> TrimSpace(auth.bindir)] >>]
        ELSE [allowed |-> FALSE, err |-> "no gitolite", spawned |-> <<>>]

\* ------------------------------------------------------------------- state
VARIABLES
    pc,         \* the statement of main about to run, "exited" after the end
    osArgs,     \* os.Args
    cfgFile,    \* the configuration file found by os.Open, <<>> before
    cfg,        \* the decoded Config
    secret,     \* [decoded, bytes]: the result of the base64 decoding
    repo,       \* main's repo
    operation,  \* main's operation
    glUser,     \* the value os.Getenv("GL_USER") returned
    user,       \* main's user
    authority,  \* the host state checkAccess met, <<>> before the call
    access,     \* [called, allowed, err]: what checkAccess returned
    spawned,    \* the subprocesses started so far
    now,        \* the captured time.Now().UTC() in epoch seconds, -1 before
    token,      \* <<[claims, key]>> once SignedString was called
    stdout,     \* the payloads written to os.Stdout
    stderr,     \* the diagnostics written to os.Stderr
    exitCode    \* the process's exit status, -1 while it runs

vars == <<pc, osArgs, cfgFile, cfg, secret, repo, operation, glUser, user,
          authority, access, spawned, now, token, stdout, stderr, exitCode>>

NoConfig == [Secret |-> <<>>, HRef |-> <<>>]

Init ==
    /\ pc = "arity"
    /\ osArgs \in ArgVectors
    /\ cfgFile = <<>>
    /\ cfg = NoConfig
    /\ secret = [decoded |-> FALSE, bytes |-> <<>>]
    /\ repo = <<>>
    /\ operation = <<>>
    /\ glUser = <<>>
    /\ user = <<>>
    /\ authority = <<>>
    /\ access = [called |-> FALSE, allowed |-> FALSE, err |-> "nil"]
    /\ spawned = <<>>
    /\ now = -1
    /\ token = <<>>
    /\ stdout = <<>>
    /\ stderr = <<>>
    /\ exitCode = -1

\* fmt.Fprint*(os.Stderr, ...) followed by os.Exit(1)
Fail(diagnostic) ==
    /\ pc' = "exited"
    /\ stderr' = Append(stderr, diagnostic)
    /\ exitCode' = 1

Goto(label) ==
    /\ pc' = label
    /\ UNCHANGED <<stderr, exitCode>>

\* if len(os.Args) < 3 || len(os.Args) > 4
CheckArity ==
    /\ pc = "arity"
    /\ IF Len(osArgs) < 3 \/ Len(osArgs) > 4 THEN Fail("usage") ELSE Goto("config")
    /\ UNCHANGED <<osArgs, cfgFile, cfg, secret, repo, operation, glUser, user,
                   authority, access, spawned, now, token, stdout>>

\* os.Open of the configuration file and json.NewDecoder(file).Decode(&cfg);
\* a key absent from the object leaves the field at ""
LoadConfig ==
    /\ pc = "config"
    /\ \E f \in ConfigFiles :
        /\ cfgFile' = <<f>>
        /\ IF ~f.exists THEN Fail("config open") /\ UNCHANGED cfg
           ELSE IF ~f.wellFormed THEN Fail("config decode") /\ UNCHANGED cfg
           ELSE /\ cfg' = [Secret |-> IF f.hasSecret THEN f.Secret ELSE <<>>,
                           HRef |-> f.HRef]
                /\ Goto("secret")
    /\ UNCHANGED <<osArgs, secret, repo, operation, glUser, user, authority,
                   access, spawned, now, token, stdout>>

\* secret, err := base64.StdEncoding.DecodeString(cfg.Secret)
DecodeSecret ==
    /\ pc = "secret"
    /\ LET r == base64DecodeString(cfg.Secret)
       IN  IF ~r.ok THEN Fail("secret") /\ UNCHANGED secret
           ELSE secret' = [decoded |-> TRUE, bytes |-> r.data] /\ Goto("repo")
    /\ UNCHANGED <<osArgs, cfgFile, cfg, repo, operation, glUser, user,
                   authority, access, spawned, now, token, stdout>>

\* repo := strings.TrimSpace(os.Args[1])
CheckRepo ==
    /\ pc = "repo"
    /\ repo' = TrimSpace(osArgs[2])
    /\ IF repo' = <<>> THEN Fail("repo") ELSE Goto("operation")
    /\ UNCHANGED <<osArgs, cfgFile, cfg, secret, operation, glUser, user,
                   authority, access, spawned, now, token, stdout>>

ValidOperation_nonEmpty(op) == op # <<>>

\* operation != "upload" && operation != "download" is the rejection
ValidOperation(op) == op = upload \/ op = download

\* operation := strings.TrimSpace(os.Args[2])
CheckOperation ==
    /\ pc = "operation"
    /\ operation' = TrimSpace(osArgs[3])
    /\ IF ~ValidOperation(operation') THEN Fail("operation") ELSE Goto("oid")
    /\ UNCHANGED <<osArgs, cfgFile, cfg, secret, repo, glUser, user, authority,
                   access, spawned, now, token, stdout>>

\* if len(os.Args) >= 4 { data, err := hex.DecodeString(os.Args[3]) ... }
CheckOid ==
    /\ pc = "oid"
    /\ IF Len(osArgs) >= 4 /\ OidFails(osArgs[4]) THEN Fail("oid") ELSE Goto("user")
    /\ UNCHANGED <<osArgs, cfgFile, cfg, secret, repo, operation, glUser, user,
                   authority, access, spawned, now, token, stdout>>

\* user := strings.TrimSpace(os.Getenv("GL_USER"))
GetUser ==
    /\ pc = "user"
    /\ \E e \in UserEnvs :
        /\ glUser' = e
        /\ user' = TrimSpace(e)
    /\ IF user' = <<>> THEN Fail("user") ELSE Goto("access")
    /\ UNCHANGED <<osArgs, cfgFile, cfg, secret, repo, operation, authority,
                   access, spawned, now, token, stdout>>

\* perm := "R"; if operation == "upload" { perm = "W" }
Perm(op) == IF op = upload THEN <<"W">> ELSE <<"R">>

CallCheckAccess_noExitOnDeny ==
    /\ pc = "access"
    /\ \E a \in Authorities :
        LET r == checkAccess(repo, user, Perm(operation), a)
        IN  /\ authority' = <<a>>
            /\ access' = [called |-> TRUE, allowed |-> r.allowed, err |-> r.err]
            /\ spawned' = spawned \o r.spawned
            /\ IF r.err # "nil" THEN Fail("authority")
               ELSE IF ~r.allowed
               THEN /\ stderr' = Append(stderr, "denied")
                    /\ pc' = "issue"
                    /\ UNCHANGED exitCode
               ELSE Goto("issue")
    /\ UNCHANGED <<osArgs, cfgFile, cfg, secret, repo, operation, glUser, user,
                   now, token, stdout>>

\* allowed, err := checkAccess(repo, user, perm) and the two tests on it
CallCheckAccess ==
    /\ pc = "access"
    /\ \E a \in Authorities :
        LET r == checkAccess(repo, user, Perm(operation), a)
        IN  /\ authority' = <<a>>
            /\ access' = [called |-> TRUE, allowed |-> r.allowed, err |-> r.err]
            /\ spawned' = spawned \o r.spawned
            /\ IF r.err # "nil" THEN Fail("authority")
               ELSE IF ~r.allowed THEN Fail("denied")
               ELSE Goto("issue")
    /\ UNCHANGED <<osArgs, cfgFile, cfg, secret, repo, operation, glUser, user,
                   now, token, stdout>>

MapClaims_hour(u, r, op, t) ==
    [user |-> u, repo |-> r, op |-> op, exp |-> t + 60 * Minute]

\* jwt.MapClaims{...} with "exp": now.Add(5 * time.Minute).Unix()
MapClaims(u, r, op, t) ==
    [user |-> u, repo |-> r, op |-> op, exp |-> t + 5 * Minute]

\* now := time.Now().UTC(), jwt.NewWithClaims and token.SignedString(secret);
\* the library's error return is left open
IssueToken ==
    /\ pc = "issue"
    /\ \E t \in 0..MaxNow, signed \in BOOLEAN :
        /\ now' = t
        /\ token' = <<[claims |-> MapClaims(user, repo, operation, t),
                       key |-> secret.bytes]>>
        /\ IF ~signed THEN Fail("sign") ELSE Goto("encode")
    /\ UNCHANGED <<osArgs, cfgFile, cfg, secret, repo, operation, glUser, user,
                   authority, access, spawned, stdout>>

\* the Response, json.NewEncoder(buf).Encode(resp) into a buffer, and
\* buf.WriteTo(os.Stdout); the encoder's error return is left open
WriteResponse ==
    /\ pc = "encode"
    /\ \E encoded \in BOOLEAN :
        LET resp == [header |-> [Authorization |-> [scheme |-> "Bearer",
                                                    token |-> token[1]]],
                     href |-> cfg.HRef]
        IN  IF ~encoded THEN Fail("encode") /\ UNCHANGED stdout
            ELSE /\ stdout' = Append(stdout, resp)
                 /\ pc' = "exited"
                 /\ exitCode' = 0
                 /\ UNCHANGED stderr
    /\ UNCHANGED <<osArgs, cfgFile, cfg, secret, repo, operation, glUser, user,
                   authority, access, spawned, now, token>>

Next ==
    \/ CheckArity
    \/ LoadConfig
    \/ DecodeSecret
    \/ CheckRepo
    \/ CheckOperation
    \/ CheckOid
    \/ GetUser
    \/ CallCheckAccess
    \/ IssueToken
    \/ WriteResponse

Spec == Init /\ [][Next]_vars

\* ------------------------------------------------------------------ claims
Running == {"arity", "config", "secret", "repo", "operation", "oid", "user",
            "access", "issue", "encode"}

Operations == {upload, download}

\* the access check was made by gitolite
OnPrimary == access.called /\ authority[1].gitolite

\* the access check was made by the perl fallback
OnFallback ==
    /\ access.called
    /\ ~authority[1].gitolite
    /\ authority[1].perl
    /\ TrimSpace(authority[1].bindir) # <<>>

\* the third argument is there and is not 64 hex digits
BadOid ==
    /\ Len(osArgs) >= 4
    /\ LET r == hexDecodeString(osArgs[4]) IN ~(r.ok /\ Len(r.data) = 32)

\* C1: when gitolite is found and exits with the denied status the run ends
\* with the access-denied diagnostic and status 1, nothing is signed and
\* nothing is written to stdout; a token is signed only after checkAccess
\* returned (true, nil).
C1_DeniedIssuesNoCredential ==
    /\ (OnPrimary /\ authority[1].run.started
                  /\ authority[1].run.code = DeniedExit)
         => /\ pc = "exited"
            /\ stderr = <<"denied">>
            /\ exitCode = 1
            /\ token = <<>>
            /\ stdout = <<>>
    /\ (pc \in {"issue", "encode"} \/ token # <<>>)
         => access = [called |-> TRUE, allowed |-> TRUE, err |-> "nil"]

C1_Witness ==
    /\ OnPrimary
    /\ authority[1].run.started
    /\ authority[1].run.code = DeniedExit
    /\ pc = "exited"
    /\ stderr = <<"denied">>

\* C2: on the primary path exit 0 is an allow, the denied status is a deny,
\* and every other exit status or a failure to start the process is an
\* operational error reported with the operational diagnostic.
C2_ExitStatusSeparatesThreeOutcomes ==
    OnPrimary =>
        LET run == authority[1].run
        IN  IF run.started /\ run.code = 0
            THEN access.allowed /\ access.err = "nil"
            ELSE IF run.started /\ run.code = DeniedExit
            THEN ~access.allowed /\ access.err = "nil" /\ stderr = <<"denied">>
            ELSE access.err # "nil" /\ stderr = <<"authority">>

\* C3: a run whose trimmed operation is neither "upload" nor "download"
\* never gets past the operation check, ends with status 1 and starts no
\* authority subprocess.
C3_InvalidOperationNeverReachesAuthority ==
    (Len(osArgs) >= 3 /\ TrimSpace(osArgs[3]) \notin Operations)
        => /\ spawned = <<>>
           /\ ~access.called
           /\ pc \in {"arity", "config", "secret", "repo", "operation", "exited"}
           /\ (pc = "exited" => exitCode = 1)

C3_Witness ==
    /\ Len(osArgs) >= 3
    /\ TrimSpace(osArgs[3]) \notin Operations
    /\ TrimSpace(osArgs[3]) # <<>>
    /\ pc = "exited"
    /\ stderr = <<"operation">>

\* C4 as stated: every finished run that was given a third argument that
\* does not decode to 32 bytes ended with the invalid-OID diagnostic and
\* status 1 without querying the authority.
C4_BadOidAlwaysInvalidOidError ==
    (pc = "exited" /\ BadOid)
        => stderr = <<"oid">> /\ exitCode = 1 /\ spawned = <<>>

\* C4 amended: a run given a third argument that does not decode to 32
\* bytes never gets past the OID check, ends with status 1 and never queries
\* the authority; its diagnostic is the invalid-OID one when the steps
\* before the OID check passed; an OID of exactly 32 bytes never produces
\* the invalid-OID diagnostic.
C4_BadOidFailsBeforeAuthority ==
    /\ BadOid
         => /\ spawned = <<>>
            /\ ~access.called
            /\ pc \in {"arity", "config", "secret", "repo", "operation", "oid",
                       "exited"}
            /\ (pc = "exited" => exitCode = 1)
    /\ (/\ pc = "exited"
        /\ Len(osArgs) = 4
        /\ secret.decoded
        /\ TrimSpace(osArgs[2]) # <<>>
        /\ TrimSpace(osArgs[3]) \in Operations
        /\ BadOid)
         => stderr = <<"oid">>
    /\ (stderr = <<"oid">> /\ Len(osArgs) >= 4) => BadOid

C4_Witness ==
    /\ BadOid
    /\ pc = "exited"
    /\ stderr = <<"oid">>
    /\ Len(osArgs[4]) = 2 * OidBytes

\* C5: when gitolite cannot be resolved and the fallback is unusable (no
\* perl, or GL_BINDIR unset or blank) checkAccess returns an error without
\* starting a subprocess, and the run ends with the authority diagnostic,
\* not the access-denied one.
C5_NoAuthorityIsNotADenial ==
    (/\ access.called
     /\ ~authority[1].gitolite
     /\ (~authority[1].perl \/ TrimSpace(authority[1].bindir) = <<>>))
        => /\ access.err # "nil"
           /\ spawned = <<>>
           /\ pc = "exited"
           /\ stderr = <<"authority">>
           /\ exitCode = 1

C5_Witness ==
    /\ access.called
    /\ ~authority[1].gitolite
    /\ authority[1].perl
    /\ authority[1].bindir = <<" ", "\t">>
    /\ stderr = <<"authority">>

\* C6: a run ends with status 1, one diagnostic on stderr and nothing on
\* stdout, or with status 0, the payload on stdout and nothing on stderr;
\* the payload is written only when every step succeeded.
C6_OutputExcludesFailure ==
    /\ exitCode \in {-1, 0, 1}
    /\ (pc = "exited") <=> (exitCode # -1)
    /\ exitCode = 1 => Len(stderr) = 1 /\ stdout = <<>>
    /\ exitCode = 0 => Len(stdout) = 1 /\ stderr = <<>>
    /\ exitCode = -1 => stdout = <<>> /\ stderr = <<>>
    /\ stdout # <<>>
         => /\ exitCode = 0
            /\ Len(osArgs) \in {3, 4}
            /\ secret.decoded
            /\ repo # <<>>
            /\ operation \in Operations
            /\ ~BadOid
            /\ user # <<>>
            /\ access = [called |-> TRUE, allowed |-> TRUE, err |-> "nil"]
            /\ token # <<>>
            /\ stdout[1].header.Authorization.token = token[1]

C6_Witness ==
    /\ pc = "exited"
    /\ exitCode = 0
    /\ Len(stdout) = 1
    /\ stderr = <<>>
    /\ Len(osArgs) = 4

\* C7: the signed claim set has exactly the entries user, repo, op and exp:
\* the trimmed GL_USER, the trimmed resource argument, the operation, and
\* the captured time plus 300 seconds.
C7_ClaimsAreIdentityResourceOperationExpiry ==
    token # <<>> =>
        LET c == token[1].claims
        IN  /\ DOMAIN c = {"user", "repo", "op", "exp"}
            /\ c.user = TrimSpace(glUser)
            /\ c.user # <<>>
            /\ c.repo = TrimSpace(osArgs[2])
            /\ c.op = TrimSpace(osArgs[3])
            /\ c.op \in Operations
            /\ now >= 0
            /\ c.exp = now + 300

C7_Witness ==
    /\ token # <<>>
    /\ now = 1
    /\ token[1].claims.exp = 301
    /\ token[1].claims.op = upload
    /\ glUser = <<" ", "v", "\n">>

\* C8: no token is signed with an empty secret: a configuration whose
\* secret is missing or decodes to zero bytes ends the run with a
\* configuration error.
C8_SecretIsNonEmpty ==
    /\ token # <<>> => token[1].key # <<>>
    /\ exitCode = 0 => secret.bytes # <<>>

\* the first field of strings.Fields(out), "" when there is none
FirstField(out) ==
    LET t == TrimLeft(out)
    IN  IF \E i \in 1..Len(t) : IsSpace(t[i])
        THEN SubSeq(t, 1, (CHOOSE i \in 1..Len(t) :
                              IsSpace(t[i]) /\ \A j \in 1..(i - 1) : ~IsSpace(t[j])) - 1)
        ELSE t

\* C9 as stated: on the fallback path, for every output perl printed,
\* checkAccess returns without error and allows exactly when the permission
\* letter occurs in the first whitespace-delimited token of the output.
C9_FirstWhitespaceTokenDecides ==
    (OnFallback /\ authority[1].output.started /\ authority[1].output.code = 0)
        => /\ access.err = "nil"
           /\ access.allowed
                <=> Contains(FirstField(authority[1].output.out), Perm(operation))

\* C9 amended: on the fallback path, for every output perl printed,
\* checkAccess allows exactly when the output has a space character and the
\* permission letter occurs before the first one, denies when it has a
\* space and the letter does not occur before it, and returns an error when
\* the output has no space character.
C9_BytesBeforeFirstSpaceDecide ==
    (OnFallback /\ authority[1].output.started /\ authority[1].output.code = 0)
        => LET out == authority[1].output.out
               letter == Perm(operation)[1]
               spaces == {i \in 1..Len(out) : out[i] = " "}
           IN  IF spaces = {}
               THEN access.err # "nil" /\ ~access.allowed
                    /\ stderr = <<"authority">>
               ELSE LET first == CHOOSE i \in spaces : \A j \in spaces : i <= j
                    IN  /\ access.err = "nil"
                        /\ access.allowed
                             <=> (\E j \in 1..(first - 1) : out[j] = letter)

C9_Witness ==
    /\ OnFallback
    /\ authority[1].output.started
    /\ authority[1].output.code = 0
    /\ authority[1].output.out = <<"\n", "W", " ">>
    /\ operation = upload
    /\ access.allowed

\* C10: the repository name handed to the authority is non-empty and is the
\* trimmed argument with at most one trailing ".git" removed.
C10_AuthorityGetsNonEmptyName ==
    \A i \in 1..Len(spawned) :
        /\ spawned[i].repo # <<>>
        /\ \/ spawned[i].repo = TrimSpace(osArgs[2])
           \/ spawned[i].repo \o dotGit = TrimSpace(osArgs[2])
====
